---- MODULE Spec2Model ----
(***************************************************************************)
(* A model of the DistSQL server of pkg/sql/distsqlrun/server.go: the      *)
(* version-gated flow setup (setupFlow), the synchronous path              *)
(* (RunSyncFlow), the unary path (SetupFlow), the inbound stream handler   *)
(* (FlowStream / flowStreamInt) and the temp-storage ID generator.         *)
(*                                                                         *)
(* Every RPC invocation is a call c \in Calls with a program counter       *)
(* pc[c]; a call that sets up a flow uses its own identifier as the flow   *)
(* identifier of its request (flow identifiers are unique UUIDs).  The     *)
(* Flow, the flow registry, the flow scheduler, the stopper and the memory *)
(* monitor are collaborators whose code lives outside server.go; they are  *)
(* modelled by their contracts.                                            *)
(***************************************************************************)
EXTENDS Naturals, Integers, Sequences, FiniteSets, TLC

\* ---------------------------------------------------------------- constants

\* server.go:69
Version == 4
\* server.go:73
MinAcceptedVersion == 4

\* ------------------------------------------------------------------- bounds

\* Number of RPC invocations (RunSyncFlow, SetupFlow, FlowStream) in a run.
MaxCalls == 2
\* Number of timer ticks after which a waiting ConnectInboundStream times out.
TimeoutTicks == 2
\* Number of goroutines that call TempStorageIDGenerator.NewID.
MaxCallers == 3
\* Total number of NewID calls in a run.
MaxIDs == 4

Calls == 1..MaxCalls
\* One more handler invocation, which arrives after the calls and is an
\* inbound stream: with it a flow, a stream connected to the flow and a
\* further stream fit in one run.  Only the runs of StreamSpec have it.
LateStream == MaxCalls + 1
Handlers == Calls \cup {LateStream}
Callers == 1..MaxCallers

\* ------------------------------------------------------------------- inputs

NoFlow == 0
ErrNil == "nil"

Versions == (MinAcceptedVersion - 1)..(Version + 1)
KnownLocations == {"UTC"}
Locations == KnownLocations \cup {"Nowhere/Bogus"}

\* A SetupFlowRequest for the flow with identifier id: the protocol version,
\* the time zone of the evaluation context and the processor DAG description
\* (which Flow.setup either can or cannot wire).
Requests(id) ==
    [Version : Versions, Location : Locations,
     Flow : [FlowID : {id}, wirable : BOOLEAN]]

VARIABLES
    nodeID,     \* ds.ServerConfig.NodeID.Get(): 0 until resolved
    draining,   \* ds.Stopper refuses new tasks
    nextID,     \* TempStorageIDGenerator.nextID
    got,        \* got[p]: the values NewID returned to caller p, in order
    kind,       \* kind[c]: which entry point call c is, "none" before it arrives
    pc,         \* pc[c]: position of call c in its handler
    req,        \* req[c]: <<>> or <<the SetupFlowRequest call c received>>
    out,        \* out[c]: <<>> or <<what setupFlow returned to call c>>
    alloc,      \* alloc[c]: spans, monitors and accounts call c opened / released,
                \*   and the bytes its account returned when it was closed
    flow,       \* flow[c]: the Flow constructed for call c; ctx is the context
                \*   its own context was derived from
    registry,   \* ds.flowRegistry: identifiers of the registered flows
    mbox,       \* mbox[c]: the outbox of sync call c
    ret,        \* ret[c]: what the entry point returned
    sched,      \* sched[c]: "none" or what ScheduleFlow returned to call c
    hdr,        \* hdr[c]: flow identifier in the header of stream call c
    waited,     \* waited[c]: ticks call c has waited in ConnectInboundStream
    attached,   \* attached[c]: flow whose receiver stream call c was handed
    releases,   \* releases[c]: invocations of the registry's release function
    first,      \* first[c]: <<>> or <<the first message stream call c received>>
    used,       \* used[c]: bytes the bound account of call c's flow holds
    oom         \* oom[c]: size of the debit the monitor refused last, when it
                \*   was refused to that account, else 0

vars == <<nodeID, draining, nextID, got, kind, pc, req, out, alloc, flow,
          registry, mbox, ret, sched, hdr, waited, attached, releases,
          first, used, oom>>

idVars == <<nextID, got>>
envVars == <<nodeID, draining>>
streamVars == <<hdr, waited, attached, releases, first>>
memVars == <<used, oom>>

\* Call c arrives: calls are numbered in their order of arrival.
Arrives(c) ==
    kind[c] = "none" /\ \A d \in DOMAIN kind : d < c => kind[d] # "none"

\* ------------------------------------------------------------- initial state

NoAlloc == [span |-> 0, spanFin |-> 0, mon |-> 0, monStop |-> 0,
            acc |-> 0, accClose |-> 0, freed |-> 0]
NoFlowObj == [status |-> "none", wired |-> FALSE, wg |-> 0, procs |-> 0,
              queued |-> FALSE, cleanups |-> 0, ctx |-> "none"]
NoMbox == [state |-> "none", err |-> ErrNil]
NoRet == [done |-> FALSE, err |-> ErrNil, resp |-> "none", embedded |-> ErrNil]

\* An entry point returning the transport-level error err.
ReturnErr(err) == [done |-> TRUE, err |-> err, resp |-> "none", embedded |-> ErrNil]

\* The server after NewServer, in a run with the handler invocations H.
InitFor(H) ==
    /\ nodeID = 0
    /\ draining = FALSE
    /\ nextID = 0
    /\ got = [p \in Callers |-> <<>>]
    /\ kind = [c \in H |-> "none"]
    /\ pc = [c \in H |-> "idle"]
    /\ req = [c \in H |-> <<>>]
    /\ out = [c \in H |-> <<>>]
    /\ alloc = [c \in H |-> NoAlloc]
    /\ flow = [c \in H |-> NoFlowObj]
    /\ registry = {}
    /\ mbox = [c \in H |-> NoMbox]
    /\ ret = [c \in H |-> NoRet]
    /\ sched = [c \in H |-> "none"]
    /\ hdr = [c \in H |-> NoFlow]
    /\ waited = [c \in H |-> 0]
    /\ attached = [c \in H |-> NoFlow]
    /\ releases = [c \in H |-> 0]
    /\ first = [c \in H |-> <<>>]
    /\ used = [c \in H |-> 0]
    /\ oom = [c \in H |-> 0]

Init == InitFor(Calls)

\* The same server in a run that has the late stream too.
StreamInit == InitFor(Handlers)


\* ----------------------------------------------------------------- setupFlow

\* sqlbase.TimeZoneStringToLocation: the error it returns for a location name.
TimeZoneStringToLocation(loc) ==
    IF loc \in KnownLocations THEN ErrNil ELSE "cannot resolve time zone"

\* Flow.setup: the error of wiring the processor DAG of a flow description.
FlowSetup(spec) ==
    IF spec.wirable THEN ErrNil ELSE "error setting up flow"

\* Faulty variant of VersionMismatch: the upper end of the window is not checked.
VersionMismatch_LowerOnly(v) == v < MinAcceptedVersion

\* setupFlow, lines 172-173: the version window.
VersionMismatch(v) == v < MinAcceptedVersion \/ v > Version

\* Faulty variant of NodeIDUnresolved: the identity check is missing.
NodeIDUnresolved_Never(nid) == FALSE

\* setupFlow, line 182: the node identity is not resolved yet.
NodeIDUnresolved(nid) == nid = 0

\* What one call of setupFlow does, as the record of its results and effects:
\*   err      the error returned (ErrNil for nil)
\*   f        whether a non-nil *Flow is returned
\*   ctx      the context returned: "nil", "plain" (no span) or "span"
\*   span     tracing spans started,  spanFin  spans finished
\*   mon      memory monitors started, acc     bound accounts opened
setupFlow(nid, r) ==
    IF VersionMismatch(r.Version) THEN
        [err |-> "version mismatch", f |-> FALSE, ctx |-> "plain",
         span |-> 0, spanFin |-> 0, mon |-> 0, acc |-> 0]
    ELSE IF NodeIDUnresolved(nid) THEN
        [err |-> "NodeID not resolved", f |-> FALSE, ctx |-> "nil",
         span |-> 0, spanFin |-> 0, mon |-> 0, acc |-> 0]
    ELSE IF TimeZoneStringToLocation(r.Location) # ErrNil THEN
        [err |-> TimeZoneStringToLocation(r.Location), f |-> FALSE,
         ctx |-> "span", span |-> 1, spanFin |-> 1, mon |-> 1, acc |-> 1]
    ELSE IF FlowSetup(r.Flow) # ErrNil THEN
        [err |-> FlowSetup(r.Flow), f |-> FALSE,
         ctx |-> "plain", span |-> 1, spanFin |-> 1, mon |-> 1, acc |-> 1]
    ELSE
        [err |-> ErrNil, f |-> TRUE,
         ctx |-> "span", span |-> 1, spanFin |-> 0, mon |-> 1, acc |-> 1]

\* The resources of a call after its setupFlow returned r.
AllocAfter(a, r) ==
    [a EXCEPT !.span = @ + r.span, !.spanFin = @ + r.spanFin,
              !.mon = @ + r.mon, !.acc = @ + r.acc]

\* The Flow of a call after its setupFlow returned r: newFlow and f.setup.
FlowAfter(fl, r) ==
    IF r.f THEN [fl EXCEPT !.status = "NotStarted", !.wired = TRUE] ELSE fl

\* A Flow remembers the context setupFlow was given: parent is what that
\* context was derived from.
UnderCtx(fl, parent) ==
    IF fl.status = "none" THEN fl ELSE [fl EXCEPT !.ctx = parent]

\* -------------------------------------------------------------- memory monitor

\* Bytes the server-wide monitor ds.memMonitor may hand out.
Budget == 3
\* Sizes a processor asks its flow's bound account to grow by.
DebitSizes == 1..2

\* Bytes drawn from the server-wide monitor by the accounts in u.
RECURSIVE SumUsed(_, _)
SumUsed(u, S) ==
    IF S = {} THEN 0
    ELSE LET c == CHOOSE x \in S : TRUE IN u[c] + SumUsed(u, S \ {c})

MonitorUsed == SumUsed(used, Calls)

\* Faulty variant of DebitFits: every request is granted.
DebitFits_Always(total, n) == TRUE

\* A monitor grants a debit of n bytes when the total stays within its budget.
DebitFits(total, n) == total + n <= Budget

\* Faulty variant of AccountClose: closing keeps the bytes on the monitor.
AccountClose_Keeps(n) == n

\* BoundAccount.Close: the bytes the account holds afterwards.
AccountClose(n) == 0

\* ------------------------------------------------- Flow, registry, scheduler

\* Streams waiting in ConnectInboundStream for flow id.
Waiters(id) == {d \in DOMAIN pc : pc[d] = "waiting" /\ hdr[d] = id}

\* Flow.Start of the flow of call c, which then continues at next: the flow
\* is registered, the pending stream connections for it are handed its
\* receiver, and its processor starts running.
FlowStart(c, next) ==
    /\ flow' = [flow EXCEPT ![c].status = "Running", ![c].queued = FALSE,
                            ![c].wg = @ + 1, ![c].procs = 1]
    /\ registry' = registry \cup {c}
    /\ pc' = [d \in DOMAIN pc |-> IF d = c THEN next
                              ELSE IF d \in Waiters(c) THEN "process"
                              ELSE pc[d]]
    /\ attached' = [d \in DOMAIN attached |->
                        IF d \in Waiters(c) THEN c ELSE attached[d]]

\* Flow.Cleanup of the flow of call c: closes the account, which returns the
\* bytes it holds to the monitor, stops the monitor, finishes the span and
\* unregisters the flow.
FlowCleanup(c) ==
    /\ alloc' = [alloc EXCEPT ![c].accClose = @ + 1, ![c].monStop = @ + 1,
                              ![c].spanFin = @ + 1,
                              ![c].freed = @ + (used[c] - AccountClose(used[c]))]
    /\ used' = [used EXCEPT ![c] = AccountClose(@)]
    /\ registry' = registry \ {c}
    /\ flow' = [flow EXCEPT ![c].status = "Finished", ![c].cleanups = @ + 1]

\* A processor goroutine of the running flow of call c finishes.
ProcessorDone(c) ==
    /\ flow[c].status = "Running"
    /\ flow[c].procs > 0
    /\ flow' = [flow EXCEPT ![c].procs = @ - 1, ![c].wg = @ - 1]
    /\ UNCHANGED <<envVars, idVars, memVars, sched, kind, pc, req, out, alloc,
                   registry, mbox, ret, streamVars>>

\* A processor of the running flow of call c asks the flow's bound account
\* for n more bytes: the monitor grants them, or refuses with an
\* out-of-memory error reported to that account.
AccountGrow(c) ==
    /\ flow[c].status = "Running"
    /\ flow[c].procs > 0
    /\ \E n \in DebitSizes :
        IF DebitFits(MonitorUsed, n)
        THEN /\ used' = [used EXCEPT ![c] = @ + n]
             /\ oom' = oom
        ELSE /\ used' = used
             /\ oom' = [d \in DOMAIN oom |-> IF d = c THEN n ELSE 0]
    /\ UNCHANGED <<envVars, idVars, sched, kind, pc, req, out, alloc, flow,
                   registry, mbox, ret, streamVars>>

\* ------------------------------------------------------------------ contexts

\* Faulty variant of FlowCtxParent: every flow is set up under the context
\* of the RPC that asked for it.
FlowCtxParent_RPC(k) == "rpc"

\* The context from which the context of a flow is derived: SetupFlow
\* (line 306) starts from context.Background(), RunSyncFlow (line 280) from
\* stream.Context(), the context of its RPC.
FlowCtxParent(k) == IF k = "SetupFlow" THEN "Background" ELSE "rpc"

\* The context of the RPC of call c is canceled when the RPC completes
\* (lines 304-305).
RPCCtxCanceled(c) == ret[c].done

\* The context under which the flow of call c was set up is canceled: it is
\* derived from a context that is canceled.  context.Background() never is.
FlowCtxCanceled(c) == flow[c].ctx = "rpc" /\ RPCCtxCanceled(c)

\* ---------------------------------------------------------------- RunSyncFlow

\* The first message of a RunSyncFlow stream: Recv fails, or the message
\* carries no SetupFlowRequest, or it carries one.
FirstMsgs(c) ==
    {[err |-> "recv error", SetupFlowRequest |-> <<>>],
     [err |-> ErrNil, SetupFlowRequest |-> <<>>]}
    \cup {[err |-> ErrNil, SetupFlowRequest |-> <<r>>] : r \in Requests(c)}

\* Faulty variant of FirstMsgErr: a missing SetupFlowRequest is not refused.
FirstMsgErr_NoRequestCheck(msg) == msg.err

\* RunSyncFlow, lines 272-278: the error returned on the first message.
FirstMsgErr(msg) ==
    IF msg.err # ErrNil THEN msg.err
    ELSE IF msg.SetupFlowRequest = <<>> THEN "no SetupFlowRequest"
    ELSE ErrNil

\* RunSyncFlow, line 270: the call arrives and creates its outbox; it then
\* blocks in stream.Recv until the client sends its first message.
RunSyncFlowEnter(c) ==
    /\ Arrives(c)
    /\ kind' = [kind EXCEPT ![c] = "RunSyncFlow"]
    /\ mbox' = [mbox EXCEPT ![c].state = "new"]
    /\ pc' = [pc EXCEPT ![c] = "recv"]
    /\ UNCHANGED <<envVars, idVars, memVars, sched, req, out, alloc, flow,
                   registry, ret, streamVars>>

\* RunSyncFlow, lines 272-279: stream.Recv returns the first message.
RunSyncFlowRecv(c) ==
    /\ kind[c] = "RunSyncFlow"
    /\ pc[c] = "recv"
    /\ \E msg \in FirstMsgs(c) :
        /\ req' = [req EXCEPT ![c] = msg.SetupFlowRequest]
        /\ IF FirstMsgErr(msg) # ErrNil
           THEN /\ pc' = [pc EXCEPT ![c] = "done"]
                /\ ret' = [ret EXCEPT ![c] = ReturnErr(FirstMsgErr(msg))]
           ELSE /\ pc' = [pc EXCEPT ![c] = "setup"]
                /\ ret' = ret
    /\ UNCHANGED <<envVars, idVars, memVars, sched, kind, out, alloc, flow,
                   registry, mbox, streamVars>>

\* Faulty variant of SyncSetupFailed: the setup error is ignored.
SyncSetupFailed_Never(r) == FALSE

\* RunSyncFlow, line 281: setup failed, return the error.
SyncSetupFailed(r) == r.err # ErrNil

\* RunSyncFlow, lines 280-284.
RunSyncFlowSetup(c) ==
    /\ kind[c] = "RunSyncFlow"
    /\ pc[c] = "setup"
    /\ LET r == setupFlow(nodeID, Head(req[c])) IN
        /\ out' = [out EXCEPT ![c] = <<r>>]
        /\ alloc' = [alloc EXCEPT ![c] = AllocAfter(@, r)]
        /\ flow' = [flow EXCEPT ![c] =
                      UnderCtx(FlowAfter(@, r), FlowCtxParent("RunSyncFlow"))]
        /\ IF SyncSetupFailed(r)
           THEN /\ pc' = [pc EXCEPT ![c] = "done"]
                /\ ret' = [ret EXCEPT ![c] = ReturnErr(r.err)]
           ELSE /\ pc' = [pc EXCEPT ![c] = "runtask"]
                /\ ret' = ret
    /\ UNCHANGED <<envVars, idVars, memVars, sched, kind, req, registry, mbox, streamVars>>

\* RunSyncFlow, lines 286-287 and 292-294: Stopper.RunTask either refuses the
\* task because the stopper is draining, and RunSyncFlow returns its error,
\* or runs the closure, which begins with f.waitGroup.Add(1).
RunSyncFlowRunTask(c) ==
    /\ kind[c] = "RunSyncFlow"
    /\ pc[c] = "runtask"
    /\ IF draining
       THEN /\ pc' = [pc EXCEPT ![c] = "done"]
            /\ ret' = [ret EXCEPT ![c] = ReturnErr("stopper draining")]
            /\ flow' = flow
       ELSE /\ pc' = [pc EXCEPT ![c] = "mboxstart"]
            /\ flow' = [flow EXCEPT ![c].wg = @ + 1]
            /\ ret' = ret
    /\ UNCHANGED <<envVars, idVars, memVars, sched, kind, req, out, alloc, registry,
                   mbox, streamVars>>

\* RunSyncFlow, line 288: mbox.start.
RunSyncFlowMboxStart(c) ==
    /\ kind[c] = "RunSyncFlow"
    /\ pc[c] = "mboxstart"
    /\ mbox' = [mbox EXCEPT ![c].state = "running"]
    /\ pc' = [pc EXCEPT ![c] = "start"]
    /\ UNCHANGED <<envVars, idVars, memVars, sched, kind, req, out, alloc, flow, registry,
                   ret, streamVars>>

\* The outbox goroutine of sync call c finishes and records its error.
MboxDone(c) ==
    /\ mbox[c].state = "running"
    /\ \E e \in {ErrNil, "stream send error"} :
        mbox' = [mbox EXCEPT ![c] = [state |-> "finished", err |-> e]]
    /\ flow' = [flow EXCEPT ![c].wg = @ - 1]
    /\ UNCHANGED <<envVars, idVars, memVars, sched, kind, pc, req, out, alloc,
                   registry, ret, streamVars>>

\* Faulty variant of AfterStart: f.Wait is left out of the closure.
AfterStart_NoWait == "cleanup"

\* RunSyncFlow, lines 289-290: f.Start is followed by f.Wait.
AfterStart == "wait"

\* RunSyncFlow, line 289: f.Start.
RunSyncFlowStart(c) ==
    /\ kind[c] = "RunSyncFlow"
    /\ pc[c] = "start"
    /\ FlowStart(c, AfterStart)
    /\ UNCHANGED <<envVars, idVars, memVars, sched, kind, req, out, alloc, mbox,
                   ret, hdr, waited, releases, first>>

\* RunSyncFlow, line 290: f.Wait returns when the wait group is empty.
RunSyncFlowWait(c) ==
    /\ kind[c] = "RunSyncFlow"
    /\ pc[c] = "wait"
    /\ flow[c].wg = 0
    /\ pc' = [pc EXCEPT ![c] = "cleanup"]
    /\ UNCHANGED <<envVars, idVars, memVars, sched, kind, req, out, alloc, flow, registry,
                   mbox, ret, streamVars>>

\* Faulty variant of RunSyncFlowResult: the task ran, so nil is returned.
RunSyncFlowResult_Nil(mboxErr) == ErrNil

\* RunSyncFlow, line 295: after the task has run, the error the outbox
\* recorded is what RunSyncFlow returns.
RunSyncFlowResult(mboxErr) == mboxErr

\* RunSyncFlow, lines 291-295: f.Cleanup, the task ends, return mbox.err.
RunSyncFlowCleanup(c) ==
    /\ kind[c] = "RunSyncFlow"
    /\ pc[c] = "cleanup"
    /\ FlowCleanup(c)
    /\ pc' = [pc EXCEPT ![c] = "done"]
    /\ ret' = [ret EXCEPT ![c] = ReturnErr(RunSyncFlowResult(mbox[c].err))]
    /\ UNCHANGED <<envVars, idVars, oom, sched, kind, req, out, mbox, streamVars>>

\* -------------------------------------------------------------------- SetupFlow

\* flowScheduler.ScheduleFlow: the error it returns; a draining stopper
\* refuses the scheduling task.
ScheduleFlowErr(stopping) == IF stopping THEN "stopper draining" ELSE ErrNil

\* Faulty variant of MaySchedule: ScheduleFlow is called whatever setup returned.
MaySchedule_Always(r) == TRUE

\* SetupFlow, line 308: the flow is scheduled only when setup succeeded.
MaySchedule(r) == r.err = ErrNil

\* Faulty variant of SetupFlowReturn: the error is returned as the RPC error.
SetupFlowReturn_AsRPCError(err) ==
    [done |-> TRUE, err |-> err, resp |-> "none", embedded |-> ErrNil]

\* SetupFlow, lines 311-317: the response and the transport-level error.
SetupFlowReturn(err) ==
    IF err # ErrNil
    THEN [done |-> TRUE, err |-> ErrNil, resp |-> "error", embedded |-> err]
    ELSE [done |-> TRUE, err |-> ErrNil, resp |-> "empty", embedded |-> ErrNil]

\* SetupFlow, lines 302-307: setupFlow under a background context.
SetupFlowSetup(c) ==
    /\ Arrives(c)
    /\ \E q \in Requests(c) :
        LET r == setupFlow(nodeID, q) IN
        /\ kind' = [kind EXCEPT ![c] = "SetupFlow"]
        /\ req' = [req EXCEPT ![c] = <<q>>]
        /\ out' = [out EXCEPT ![c] = <<r>>]
        /\ alloc' = [alloc EXCEPT ![c] = AllocAfter(@, r)]
        /\ flow' = [flow EXCEPT ![c] =
                      UnderCtx(FlowAfter(@, r), FlowCtxParent("SetupFlow"))]
        /\ pc' = [pc EXCEPT ![c] = "schedule"]
    /\ UNCHANGED <<envVars, idVars, memVars, sched, registry, mbox, ret, streamVars>>

\* SetupFlow, lines 308-317: ScheduleFlow when setup succeeded (the scheduler
\* starts the flow at once or queues it), then the response.
SetupFlowSchedule(c) ==
    /\ kind[c] = "SetupFlow"
    /\ pc[c] = "schedule"
    /\ LET r == Head(out[c]) IN
        IF ~MaySchedule(r)
        THEN /\ ret' = [ret EXCEPT ![c] = SetupFlowReturn(r.err)]
             /\ pc' = [pc EXCEPT ![c] = "done"]
             /\ UNCHANGED <<sched, flow, registry, attached>>
        ELSE /\ sched' = [sched EXCEPT ![c] = ScheduleFlowErr(draining)]
             /\ ret' = [ret EXCEPT
                          ![c] = SetupFlowReturn(ScheduleFlowErr(draining))]
             /\ IF ScheduleFlowErr(draining) # ErrNil
                THEN /\ pc' = [pc EXCEPT ![c] = "done"]
                     /\ UNCHANGED <<flow, registry, attached>>
                ELSE \/ FlowStart(c, "done")
                     \/ /\ flow' = [flow EXCEPT ![c].queued = TRUE]
                        /\ pc' = [pc EXCEPT ![c] = "done"]
                        /\ UNCHANGED <<registry, attached>>
    /\ UNCHANGED <<envVars, idVars, memVars, kind, req, out, alloc, mbox, hdr,
                   waited, releases, first>>

\* The flow scheduler starts a queued flow.
SchedulerRunQueued(c) ==
    /\ flow[c].queued
    /\ ~draining
    /\ FlowStart(c, pc[c])
    /\ UNCHANGED <<envVars, idVars, memVars, sched, kind, req, out, alloc, mbox,
                   ret, hdr, waited, releases, first>>

\* The goroutine of a scheduled flow: f.Wait returns, then f.Cleanup.
AsyncFlowCleanup(c) ==
    /\ kind[c] = "SetupFlow"
    /\ flow[c].status = "Running"
    /\ flow[c].wg = 0
    /\ FlowCleanup(c)
    /\ UNCHANGED <<envVars, idVars, oom, sched, kind, pc, req, out, mbox, ret,
                   streamVars>>

\* ------------------------------------------------------------------ FlowStream

\* The first message of an inbound stream: end of stream, a receive error, a
\* message without a header, or a header naming a flow and a stream.
StreamFirstMsgs ==
    {[err |-> e, Header |-> <<>>] : e \in {"EOF", "recv error", ErrNil}}
    \cup {[err |-> ErrNil, Header |-> <<[FlowID |-> id, StreamID |-> 1]>>] :
            id \in Calls}

\* Faulty variant of StreamFirstMsgErr: the end of the stream is passed on
\* as it is instead of being turned into the protocol error.
StreamFirstMsgErr_EOFPassedOn(msg) ==
    IF msg.err # ErrNil THEN msg.err
    ELSE IF msg.Header = <<>> THEN "no header in first message"
    ELSE ErrNil

\* flowStreamInt, lines 322-331: the error returned on the first message.
StreamFirstMsgErr(msg) ==
    IF msg.err # ErrNil
    THEN (IF msg.err = "EOF" THEN "missing header message" ELSE msg.err)
    ELSE IF msg.Header = <<>> THEN "no header in first message"
    ELSE ErrNil

\* flowRegistry.ConnectInboundStream called for flow id: a registered flow is
\* found at once, otherwise the call waits for the flow to be registered.
ConnectInboundStream(id) ==
    IF id \in registry THEN "process" ELSE "waiting"

\* FlowStream / flowStreamInt, lines 322-341: the first message is received
\* and, when it has a header, ConnectInboundStream is called.
FlowStreamRecv(c) ==
    /\ Arrives(c)
    /\ \E msg \in StreamFirstMsgs :
        /\ kind' = [kind EXCEPT ![c] = "FlowStream"]
        /\ first' = [first EXCEPT ![c] = <<msg>>]
        /\ IF StreamFirstMsgErr(msg) # ErrNil
           THEN /\ pc' = [pc EXCEPT ![c] = "done"]
                /\ ret' = [ret EXCEPT ![c] = ReturnErr(StreamFirstMsgErr(msg))]
                /\ UNCHANGED <<hdr, attached>>
           ELSE LET id == Head(msg.Header).FlowID IN
                /\ pc' = [pc EXCEPT ![c] = ConnectInboundStream(id)]
                /\ hdr' = [hdr EXCEPT ![c] = id]
                /\ attached' = [attached EXCEPT ![c] =
                      IF ConnectInboundStream(id) = "process" THEN id
                      ELSE NoFlow]
                /\ ret' = ret
    /\ UNCHANGED <<envVars, idVars, memVars, sched, req, out, alloc, flow, registry,
                   mbox, waited, releases>>

\* Faulty variant of TimedOut: the wait fails without waiting.
TimedOut_AtOnce(w) == TRUE

\* ConnectInboundStream: the wait has lasted w ticks and times out.
TimedOut(w) == w >= TimeoutTicks

\* Time passes for a call waiting in ConnectInboundStream.
ConnectTick(c) ==
    /\ pc[c] = "waiting"
    /\ ~TimedOut(waited[c])
    /\ waited' = [waited EXCEPT ![c] = @ + 1]
    /\ UNCHANGED <<envVars, idVars, memVars, sched, kind, pc, req, out, alloc,
                   flow, registry, mbox, ret, hdr, attached, releases, first>>

\* Faulty variant of PendingDropped: the timeout of one stream gives up every
\* pending connection request for the same flow.
PendingDropped_WholeFlow(c) == Waiters(hdr[c])

\* The pending connection requests the registry gives up when the wait of
\* call c times out: requests are kept per (flow, stream), each with the
\* timeout its own call passed, so it is the request of call c and no other.
PendingDropped(c) == {c}

\* ConnectInboundStream times out and flowStreamInt returns its error
\* (lines 339-341).
ConnectTimeout(c) ==
    /\ pc[c] = "waiting"
    /\ TimedOut(waited[c])
    /\ pc' = [d \in DOMAIN pc |->
                IF d \in PendingDropped(c) THEN "done" ELSE pc[d]]
    /\ ret' = [d \in DOMAIN ret |->
                IF d \in PendingDropped(c) THEN ReturnErr("timeout") ELSE ret[d]]
    /\ UNCHANGED <<envVars, idVars, memVars, sched, kind, req, out, alloc, flow,
                   registry, mbox, hdr, waited, attached, releases, first>>

\* Faulty variant of DeferredCleanup: the release function is never deferred.
DeferredCleanup_Missing(n) == n

\* flowStreamInt, line 342: `defer cleanup()` invokes the release function
\* once when the handler returns; n counts the invocations so far.
DeferredCleanup(n) == n + 1

\* flowStreamInt, lines 342-344: ProcessInboundStream returns, the deferred
\* release function runs, and the handler returns the processing error.
ProcessInboundStream(c) ==
    /\ kind[c] = "FlowStream"
    /\ pc[c] = "process"
    /\ \E e \in {ErrNil, "stream error"} :
        ret' = [ret EXCEPT ![c] = ReturnErr(e)]
    /\ releases' = [releases EXCEPT ![c] = DeferredCleanup(@)]
    /\ pc' = [pc EXCEPT ![c] = "done"]
    /\ UNCHANGED <<envVars, idVars, memVars, sched, kind, req, out, alloc, flow,
                   registry, mbox, hdr, waited, attached, first>>

\* ----------------------------------------------------------------- environment

\* The node identity is resolved.
ResolveNodeID ==
    /\ nodeID = 0
    /\ nodeID' = 1
    /\ UNCHANGED <<draining, idVars, memVars, sched, kind, pc, req, out, alloc, flow,
                   registry, mbox, ret, streamVars>>

\* The node starts shutting down: the stopper refuses new tasks.
StopperQuiesce ==
    /\ ~draining
    /\ draining' = TRUE
    /\ UNCHANGED <<nodeID, idVars, memVars, sched, kind, pc, req, out, alloc, flow,
                   registry, mbox, ret, streamVars>>

\* ------------------------------------------------------ TempStorageIDGenerator

\* Faulty variant of AddUint64: the counter is read but not advanced.
AddUint64_NoIncrement(v, delta) == v

\* atomic.AddUint64(&v, delta): the new value, which is stored and returned.
\* The run bound MaxIDs keeps the counter far below 2^64.
AddUint64(v, delta) == v + delta

\* TempStorageIDGenerator.NewID called by goroutine p (lines 121-123).
NewID(p) ==
    /\ Len(got[p]) < MaxIDs
    /\ nextID < MaxIDs
    /\ nextID' = AddUint64(nextID, 1)
    /\ got' = [got EXCEPT ![p] = Append(@, AddUint64(nextID, 1))]
    /\ UNCHANGED <<envVars, memVars, sched, kind, pc, req, out, alloc, flow,
                   registry, mbox, ret, streamVars>>

\* --------------------------------------------------------------- specification

Next ==
    \/ ResolveNodeID
    \/ StopperQuiesce
    \/ \E c \in Calls :
        \/ RunSyncFlowEnter(c)
        \/ RunSyncFlowRecv(c)
        \/ RunSyncFlowSetup(c)
        \/ RunSyncFlowRunTask(c)
        \/ RunSyncFlowMboxStart(c)
        \/ MboxDone(c)
        \/ RunSyncFlowStart(c)
        \/ ProcessorDone(c)
        \/ RunSyncFlowWait(c)
        \/ RunSyncFlowCleanup(c)
        \/ SetupFlowSetup(c)
        \/ SetupFlowSchedule(c)
        \/ SchedulerRunQueued(c)
        \/ AsyncFlowCleanup(c)
        \/ FlowStreamRecv(c)
        \/ ConnectTick(c)
        \/ ConnectTimeout(c)
        \/ ProcessInboundStream(c)

Spec == Init /\ [][Next]_vars

\* The ID generator alone, called by concurrent goroutines.
NextID == \E p \in Callers : NewID(p)

IDSpec == Init /\ [][NextID]_vars


\* The synchronous flows of the server with the memory their processors draw
\* from the server-wide monitor while they run.
MemNext ==
    \/ ResolveNodeID
    \/ \E c \in Calls :
        \/ RunSyncFlowEnter(c)
        \/ RunSyncFlowRecv(c)
        \/ RunSyncFlowSetup(c)
        \/ RunSyncFlowRunTask(c)
        \/ RunSyncFlowMboxStart(c)
        \/ MboxDone(c)
        \/ RunSyncFlowStart(c)
        \/ RunSyncFlowWait(c)
        \/ RunSyncFlowCleanup(c)
        \/ ProcessorDone(c)
        \/ AccountGrow(c)

MemSpec == Init /\ [][MemNext]_vars

\* The flows scheduled through SetupFlow and the inbound streams that look
\* for them, with one stream more than there are calls.
StreamNext ==
    \/ ResolveNodeID
    \/ \E c \in Calls :
        \/ SetupFlowSetup(c)
        \/ SetupFlowSchedule(c)
        \/ SchedulerRunQueued(c)
        \/ ProcessorDone(c)
        \/ AsyncFlowCleanup(c)
    \/ \E c \in Handlers :
        \/ FlowStreamRecv(c)
        \/ ConnectTick(c)
        \/ ConnectTimeout(c)
        \/ ProcessInboundStream(c)

StreamSpec == StreamInit /\ [][StreamNext]_vars

\* The timer of a call waiting in ConnectInboundStream keeps running: some
\* waiting call's tick or timeout eventually happens while any is possible.
FairSpec ==
    /\ Spec
    /\ WF_vars(\E c \in Calls : ConnectTick(c) \/ ConnectTimeout(c))

\* -------------------------------------------------------------------- claims

\* setupFlow has been called for call c, and what it returned.
SetupCalled(c) == out[c] # <<>>
SetupOut(c) == Head(out[c])
SetupReq(c) == Head(req[c])

\* C1: a setup request whose version is below MinAcceptedVersion or above
\* Version fails with the version-mismatch error, through every entry point,
\* and nothing was allocated for it: no span, no monitor, no account, no Flow.
C1_VersionMismatchAllocatesNothing ==
    \A c \in Calls :
        (/\ SetupCalled(c)
         /\ (SetupReq(c).Version < MinAcceptedVersion
             \/ SetupReq(c).Version > Version))
        => /\ SetupOut(c).err = "version mismatch"
           /\ ~SetupOut(c).f
           /\ alloc[c] = NoAlloc
           /\ flow[c] = NoFlowObj
           /\ c \notin registry
           /\ (ret[c].done /\ kind[c] = "RunSyncFlow"
                 => ret[c].err = "version mismatch")
           /\ (ret[c].done /\ kind[c] = "SetupFlow"
                 => ret[c].embedded = "version mismatch")

\* C1 witness: requests below and above the window were both rejected.
C1_Witness ==
    \E c, d \in Calls :
        /\ SetupCalled(c) /\ SetupReq(c).Version < MinAcceptedVersion
        /\ SetupCalled(d) /\ SetupReq(d).Version > Version
        /\ ret[c].done /\ ret[d].done

\* C2: a setupFlow call made while the node identity is unresolved (NodeID
\* is 0) fails whatever the request, returns no Flow, and starts no span and
\* opens no monitor or account.
C2_UnresolvedNodeIDFails ==
    [][\A c \in Calls :
        (nodeID = 0 /\ out[c] = <<>> /\ out'[c] # <<>>)
        => /\ Head(out'[c]).err # ErrNil
           /\ ~Head(out'[c]).f
           /\ alloc'[c] = NoAlloc
           /\ flow'[c] = NoFlowObj]_vars

\* C2 witness: a request inside the version window, with a known time zone
\* and a wirable plan, was refused because the identity was unresolved.
C2_Witness ==
    \E c \in Calls :
        /\ SetupCalled(c)
        /\ SetupOut(c).err = "NodeID not resolved"
        /\ SetupReq(c).Location \in KnownLocations
        /\ SetupReq(c).Flow.wirable

\* C3 (as claimed): after a setupFlow call that returned an error, every
\* monitor, account and span the call opened has been released exactly once.
C3_FailedSetupReleasesAll ==
    \A c \in Calls :
        (SetupCalled(c) /\ SetupOut(c).err # ErrNil)
        => /\ alloc[c].monStop = alloc[c].mon
           /\ alloc[c].accClose = alloc[c].acc
           /\ alloc[c].spanFin = alloc[c].span

\* C4 (as claimed): when RunSyncFlow has returned after a successful setup,
\* Flow.Cleanup has been invoked exactly once, on every exit path.
C4_SyncFlowCleanedUpOnce ==
    \A c \in Calls :
        (/\ kind[c] = "RunSyncFlow"
         /\ ret[c].done
         /\ SetupCalled(c)
         /\ SetupOut(c).err = ErrNil)
        => flow[c].cleanups = 1

\* The flow of call c has been started, queued or handed to the scheduler,
\* or its handler has gone past the setup.
ReachedStart(c) ==
    \/ flow[c].status \in {"Running", "Finished"}
    \/ flow[c].queued
    \/ sched[c] # "none"
    \/ c \in registry
    \/ pc[c] \in {"runtask", "mboxstart", "start", "wait", "cleanup"}

\* C5: a flow whose setup failed is never started or scheduled, and
\* setupFlow returns a Flow only when the version check, the identity check,
\* the time-zone resolution and the DAG wiring all succeeded.
C5_FailedSetupNeverStarts ==
    \A c \in Calls :
        /\ ReachedStart(c) => (SetupCalled(c) /\ SetupOut(c).err = ErrNil)
        /\ (SetupCalled(c) /\ SetupOut(c).f)
             => /\ SetupOut(c).err = ErrNil
                /\ SetupReq(c).Version >= MinAcceptedVersion
                /\ SetupReq(c).Version <= Version
                /\ nodeID # 0
                /\ SetupReq(c).Location \in KnownLocations
                /\ SetupReq(c).Flow.wirable
        /\ (SetupCalled(c) /\ ~SetupOut(c).f) => flow[c] = NoFlowObj

\* C5 witness: one flow failed its wiring and its call is over, never
\* started, while another flow was set up and is running.
C5_Witness ==
    \E c, d \in Calls :
        /\ SetupCalled(c) /\ SetupOut(c).err = "error setting up flow"
        /\ ret[c].done /\ flow[c].status = "none"
        /\ flow[d].status = "Running"

\* C6: SetupFlow never returns a transport-level error; its response embeds
\* an error exactly when setupFlow failed or ScheduleFlow failed, and is
\* empty exactly when both succeeded.
C6_SetupFlowEmbedsErrors ==
    \A c \in Calls :
        (kind[c] = "SetupFlow" /\ ret[c].done)
        => /\ ret[c].err = ErrNil
           /\ ret[c].resp \in {"empty", "error"}
           /\ (ret[c].resp = "error") = (ret[c].embedded # ErrNil)
           /\ (ret[c].resp = "error")
                = (\/ SetupOut(c).err # ErrNil
                   \/ (SetupOut(c).err = ErrNil /\ sched[c] # ErrNil))
           /\ (ret[c].resp = "empty")
                = (SetupOut(c).err = ErrNil /\ sched[c] = ErrNil)
           /\ (SetupOut(c).err # ErrNil => sched[c] = "none")

\* C6 witness: one SetupFlow answered with an empty response and another
\* with the embedded error of a failed ScheduleFlow.
C6_Witness ==
    \E c, d \in Calls :
        /\ kind[c] = "SetupFlow" /\ ret[c].done /\ ret[c].resp = "empty"
        /\ kind[d] = "SetupFlow" /\ ret[d].done /\ ret[d].resp = "error"
        /\ SetupOut(d).err = ErrNil

\* C7: a RunSyncFlow whose first message carries no setup request, or whose
\* first receive fails, has returned an error at once: as soon as Recv has
\* returned the call is over with that error, setupFlow was not called,
\* nothing was opened and no flow exists or was started.  A call that still
\* waits in Recv has not returned and has opened nothing either.
C7_NoSetupRequestFailsAtOnce ==
    \A c \in Calls :
        (kind[c] = "RunSyncFlow" /\ req[c] = <<>>)
        => /\ pc[c] \in {"recv", "done"}
           /\ pc[c] = "recv" <=> ~ret[c].done
           /\ pc[c] = "done"
                => ret[c].err \in {"recv error", "no SetupFlowRequest"}
           /\ out[c] = <<>>
           /\ alloc[c] = NoAlloc
           /\ flow[c] = NoFlowObj
           /\ c \notin registry

\* C7 witness: a first message without a setup request was refused.
C7_Witness ==
    \E c \in Calls :
        /\ kind[c] = "RunSyncFlow"
        /\ ret[c].done
        /\ ret[c].err = "no SetupFlowRequest"
        /\ out[c] = <<>>


\* The number of NewID calls made so far by the callers in S.
RECURSIVE IssuedBy(_)
IssuedBy(S) ==
    IF S = {} THEN 0
    ELSE LET p == CHOOSE x \in S : TRUE
         IN Len(got[p]) + IssuedBy(S \ {p})

\* The values NewID has returned so far, to any caller.
IssuedIDs == UNION {{got[p][i] : i \in 1..Len(got[p])} : p \in Callers}

\* C8: the N calls of NewID made so far by any number of concurrent callers
\* returned pairwise distinct values, which are exactly the N integers that
\* follow the initial counter value 0 (the first call returns 1), none
\* skipped and none returned twice; each caller sees increasing values.
C8_NewIDDistinctContiguous ==
    /\ IssuedIDs = 1..IssuedBy(Callers)
    /\ nextID = IssuedBy(Callers)
    /\ \A p, q \in Callers :
        \A i \in 1..Len(got[p]) : \A j \in 1..Len(got[q]) :
            (p # q \/ i # j) => got[p][i] # got[q][j]
    /\ \A p \in Callers :
        \A i, j \in 1..Len(got[p]) : i < j => got[p][i] < got[p][j]

\* C8 witness: the calls of two callers interleaved.
C8_Witness ==
    \E p, q \in Callers :
        /\ p # q
        /\ Len(got[p]) >= 2
        /\ Len(got[q]) >= 1
        /\ got[p][1] = 1
        /\ got[p][1] < got[q][1]
        /\ got[q][1] < got[p][2]

\* C9: ConnectInboundStream for a flow that is registered when it is called
\* returns that flow's consumer at once; for a flow that becomes registered
\* while the call waits it returns that flow's consumer; it fails with the
\* timeout error only when the whole timeout has elapsed without the flow
\* being registered; and no call blocks forever: every wait ends, so that
\* from some point on no call is waiting (a call waits at most once).
C9_ConnectWithinTimeout ==
    /\ [][\A c \in Calls :
            /\ (kind[c] = "none" /\ hdr'[c] # NoFlow /\ hdr'[c] \in registry)
                 => (pc'[c] = "process" /\ attached'[c] = hdr'[c])
            /\ (kind[c] = "none" /\ hdr'[c] # NoFlow /\ hdr'[c] \notin registry)
                 => (pc'[c] = "waiting" /\ waited'[c] = 0)
            /\ (pc[c] = "waiting" /\ hdr[c] \in registry')
                 => (pc'[c] = "process" /\ attached'[c] = hdr[c])
            /\ (pc[c] = "waiting" /\ pc'[c] = "done")
                 => /\ ret'[c].err = "timeout"
                    /\ waited[c] = TimeoutTicks
                    /\ hdr[c] \notin registry
                    /\ attached'[c] = NoFlow
            /\ (pc[c] = "waiting" /\ pc'[c] = "waiting")
                 => waited'[c] <= TimeoutTicks]_vars
    /\ <>[](\A c \in Calls : pc[c] # "waiting")

\* C9 witness: a stream whose flow was never registered failed with the
\* timeout error after waiting the whole timeout.
C9_Witness ==
    \E c \in Calls :
        /\ kind[c] = "FlowStream"
        /\ ret[c].done
        /\ ret[c].err = "timeout"
        /\ waited[c] = TimeoutTicks
        /\ attached[c] = NoFlow

\* C10: a stream is attached to a flow (it was handed the flow's receiver
\* and ProcessInboundStream began) only if that flow's setup has completed
\* with its DAG wired; only such flows are ever registered, and a stream
\* whose flow is not registered yet waits without being attached.
C10_AttachOnlyAfterSetup ==
    /\ \A c \in Calls :
        /\ attached[c] # NoFlow
             => /\ attached[c] = hdr[c]
                /\ flow[attached[c]].wired
                /\ SetupCalled(attached[c])
                /\ SetupOut(attached[c]).err = ErrNil
                /\ flow[attached[c]].status \in {"Running", "Finished"}
        /\ (pc[c] = "process" \/ releases[c] > 0) => attached[c] # NoFlow
        /\ pc[c] = "waiting"
             => (attached[c] = NoFlow /\ hdr[c] \notin registry)
    /\ \A f \in registry : flow[f].wired /\ SetupOut(f).err = ErrNil

\* C10 witness: a stream that arrived before its flow was registered waited
\* and was attached once the flow had been set up and started.
C10_Witness ==
    \E c \in Calls :
        /\ kind[c] = "FlowStream"
        /\ waited[c] > 0
        /\ attached[c] # NoFlow
        /\ flow[attached[c]].wired

\* The first message stream call c received.
FirstMsg(c) == Head(first[c])
\* The stream of call c ended before any message.
EndedBeforeHeader(c) == first[c] # <<>> /\ FirstMsg(c).err = "EOF"
\* The first message of stream call c arrived and it has no header.
HeaderMissing(c) ==
    first[c] # <<>> /\ FirstMsg(c).err = ErrNil /\ FirstMsg(c).Header = <<>>

\* C11: an inbound stream that ends before any message, or whose first
\* message has no header, is rejected with the protocol error of its case;
\* the registry is never asked to connect it (no flow identifier was taken
\* from it, it never waits and is never attached) and no release function
\* is invoked.
C11_NoHeaderRejected ==
    \A c \in Calls :
        (EndedBeforeHeader(c) \/ HeaderMissing(c))
        => /\ kind[c] = "FlowStream"
           /\ pc[c] = "done"
           /\ ret[c].done
           /\ ret[c].err = (IF EndedBeforeHeader(c)
                            THEN "missing header message"
                            ELSE "no header in first message")
           /\ hdr[c] = NoFlow
           /\ waited[c] = 0
           /\ attached[c] = NoFlow
           /\ releases[c] = 0

\* C11 witness: one stream ended before any message and another sent a first
\* message without a header; both handlers have returned.
C11_Witness ==
    \E c, d \in Calls :
        /\ EndedBeforeHeader(c) /\ ret[c].done
        /\ HeaderMissing(d) /\ ret[d].done

\* ConnectInboundStream was called for stream call c and succeeded / failed.
ConnectSucceeded(c) == kind[c] = "FlowStream" /\ attached[c] # NoFlow
ConnectFailed(c) ==
    kind[c] = "FlowStream" /\ hdr[c] # NoFlow /\ pc[c] = "done"
    /\ attached[c] = NoFlow

\* C12: when ConnectInboundStream succeeded, the release function has not
\* run while the stream is processed and has run exactly once when the
\* handler has returned, whether processing ended normally or with an error;
\* when ConnectInboundStream failed, it is never invoked.
C12_ReleaseExactlyOnce ==
    \A c \in Calls :
        /\ ConnectSucceeded(c)
             => IF ret[c].done THEN releases[c] = 1
                ELSE pc[c] = "process" /\ releases[c] = 0
        /\ ConnectFailed(c) => releases[c] = 0 /\ ret[c].err = "timeout"
        /\ releases[c] > 0 => ConnectSucceeded(c)

\* C12 witness: a connected stream whose processing ended with an error and
\* whose handler has returned.
C12_Witness ==
    \E c \in Calls :
        /\ ConnectSucceeded(c)
        /\ ret[c].done
        /\ ret[c].err = "stream error"
        /\ releases[c] = 1

\* C13: the bytes held by the bound accounts under the server-wide monitor
\* never exceed its budget.  A step that refuses a debit (records an
\* out-of-memory error on the requesting account) is taken only for a
\* request that would have exceeded the budget, reports the error to that
\* account alone and leaves the usage of every account unchanged; a step
\* that grows an account stays within the budget, reports no error and
\* leaves the other accounts as they were.
C13_BudgetNeverExceeded ==
    /\ [](MonitorUsed <= Budget)
    /\ [][/\ oom' # oom
            => /\ used' = used
               /\ \E c \in Calls :
                    /\ oom'[c] \in DebitSizes
                    /\ MonitorUsed + oom'[c] > Budget
                    /\ flow[c].status = "Running"
                    /\ \A d \in Calls \ {c} : oom'[d] = 0
          /\ \A c \in Calls :
                used'[c] > used[c]
                => /\ MonitorUsed' <= Budget
                   /\ oom' = oom
                   /\ \A d \in Calls \ {c} : used'[d] = used[d]]_vars

\* C13 witness: an account was refused a debit while another flow's account
\* holds bytes, and the monitor is within its budget.
C13_Witness ==
    \E c, d \in Calls :
        /\ c # d
        /\ oom[c] > 0
        /\ used[d] > 0
        /\ flow[c].status = "Running"
        /\ MonitorUsed <= Budget

\* The flow of call c was set up successfully and has been cleaned up.
CleanedUp(c) == SetupCalled(c) /\ SetupOut(c).f /\ flow[c].cleanups > 0

\* C14: a successfully set-up flow that has been cleaned up has its span
\* finished once, its monitor stopped, its account closed and no byte left
\* on that account, all by a single cleanup; when every flow that was set
\* up has been cleaned up, the server-wide monitor holds nothing.
C14_CleanupReturnsEverything ==
    /\ \A c \in Calls :
        CleanedUp(c)
        => /\ flow[c].cleanups = 1
           /\ alloc[c].span = 1 /\ alloc[c].spanFin = 1
           /\ alloc[c].mon = 1 /\ alloc[c].monStop = 1
           /\ alloc[c].acc = 1 /\ alloc[c].accClose = 1
           /\ used[c] = 0
    /\ (\A c \in Calls : SetupCalled(c) /\ SetupOut(c).f => CleanedUp(c))
        => MonitorUsed = 0

\* C14 witness: every call set up a flow, each flow held bytes while it ran
\* and returned them when it was cleaned up.
C14_Witness ==
    \A c \in Calls :
        /\ CleanedUp(c)
        /\ alloc[c].freed > 0
        /\ used[c] = 0

\* C15: the context under which a flow is set up and scheduled by the unary
\* SetupFlow is not derived from the context of the RPC: when the RPC has
\* completed and its context is canceled, the flow's context is not.
C15_UnaryFlowCtxIndependent ==
    \A c \in Calls :
        (kind[c] = "SetupFlow" /\ SetupCalled(c) /\ SetupOut(c).f)
        => /\ flow[c].ctx = "Background"
           /\ ~FlowCtxCanceled(c)

\* C15 witness: a unary SetupFlow has returned, so the context of its RPC is
\* canceled, and the flow it scheduled is running.
C15_Witness ==
    \E c \in Calls :
        /\ kind[c] = "SetupFlow"
        /\ RPCCtxCanceled(c)
        /\ sched[c] = ErrNil
        /\ flow[c].status = "Running"
        /\ ~FlowCtxCanceled(c)

\* The supervised task of sync call c has run to its end.
SyncTaskRan(c) ==
    kind[c] = "RunSyncFlow" /\ ret[c].done /\ flow[c].cleanups > 0

\* C16: when RunSyncFlow has set up its flow and the supervised task has
\* run, the error it returns is the error the outbox recorded: a delivery
\* error of the outbox is returned although the flow ran to its end, and nil
\* is returned only when the outbox recorded none.
C16_SyncReturnsMboxErr ==
    \A c \in Calls :
        SyncTaskRan(c)
        => /\ mbox[c].state = "finished"
           /\ ret[c].err = mbox[c].err
           /\ ret[c].resp = "none"

\* C16 witness: the task of a sync call ran, its flow was cleaned up, and
\* the call returned the delivery error of its outbox.
C16_Witness ==
    \E c \in Calls :
        /\ SyncTaskRan(c)
        /\ flow[c].status = "Finished"
        /\ mbox[c].err = "stream send error"
        /\ ret[c].err = "stream send error"

\* C17: inside the task of RunSyncFlow the outbox is started only after it
\* was added to the wait group, the flow is started only after the outbox,
\* Wait returns only when the processors and the outbox have all finished,
\* and Cleanup runs after that, once: it never runs while the flow or the
\* outbox is still running.
C17_SyncLifecycleOrder ==
    \A c \in Calls :
        kind[c] = "RunSyncFlow"
        => /\ mbox[c].state = "running" => flow[c].wg >= 1
           /\ mbox[c].state \in {"running", "finished"}
                => pc[c] \in {"start", "wait", "cleanup", "done"}
           /\ flow[c].status \in {"Running", "Finished"}
                => /\ mbox[c].state \in {"running", "finished"}
                   /\ pc[c] \in {"wait", "cleanup", "done"}
           /\ pc[c] = "wait" => flow[c].status = "Running"
           /\ pc[c] = "cleanup"
                => /\ flow[c].status = "Running"
                   /\ flow[c].cleanups = 0
                   /\ flow[c].procs = 0
                   /\ flow[c].wg = 0
                   /\ mbox[c].state = "finished"
           /\ flow[c].cleanups <= 1
           /\ flow[c].cleanups = 1
                => /\ flow[c].status = "Finished"
                   /\ pc[c] = "done"
                   /\ flow[c].procs = 0
                   /\ flow[c].wg = 0
                   /\ mbox[c].state = "finished"

\* C17 witness: a sync call whose flow went through the whole lifecycle.
C17_Witness ==
    \E c \in Calls :
        /\ kind[c] = "RunSyncFlow"
        /\ flow[c].status = "Finished"
        /\ flow[c].cleanups = 1
        /\ mbox[c].state = "finished"

\* C18: whenever setupFlow returns an error after it started the span, the
\* span has been finished exactly once and the context it returns does not
\* carry the span.
C18_ErrorReturnDetachesSpan ==
    \A c \in Calls :
        (SetupCalled(c) /\ SetupOut(c).err # ErrNil /\ SetupOut(c).span = 1)
        => /\ SetupOut(c).spanFin = 1
           /\ SetupOut(c).ctx # "span"

\* The handshake of stream call c fails in this step: its handler returns
\* before the stream was connected to a flow.
HandshakeFails(c) ==
    /\ pc[c] \in {"idle", "waiting"}
    /\ pc'[c] = "done"
    /\ kind'[c] = "FlowStream"

\* C19: a step in which the handshake of one inbound stream fails (end of
\* stream before any message, no header, connect timeout) changes nothing
\* but that stream's own call: the registry, every flow's lifecycle state,
\* and the position, connection and release count of every other stream,
\* those of the same flow included, stay as they were.
C19_HandshakeFailureIsLocal ==
    [][\A c \in Handlers :
        HandshakeFails(c)
        => /\ registry' = registry
           /\ flow' = flow
           /\ alloc' = alloc
           /\ attached' = attached
           /\ releases' = releases
           /\ \A d \in Handlers \ {c} :
                /\ pc'[d] = pc[d]
                /\ hdr'[d] = hdr[d]
                /\ waited'[d] = waited[d]
                /\ ret'[d] = ret[d]]_vars

\* C19 witness: a flow and two of its streams.  Stream d is connected to
\* the flow and is being processed, stream e of the same flow has timed
\* out; the connection of d and the flow's record of its one cleanup are
\* intact.
C19_Witness ==
    \E f \in Calls : \E d, e \in Handlers :
        /\ d # e
        /\ kind[f] = "SetupFlow"
        /\ flow[f].status = "Finished"
        /\ flow[f].cleanups = 1
        /\ attached[d] = f
        /\ pc[d] = "process"
        /\ releases[d] = 0
        /\ hdr[e] = f
        /\ ret[e].done
        /\ ret[e].err = "timeout"
        /\ attached[e] = NoFlow

====
